---- MODULE Spec2Model ----
(***************************************************************************)
(* A model of bench/kodama_bench.rs, the micro-benchmark driver that times *)
(* kodama's linkage entry points (generic, mst, nnchain) on a synthetic    *)
(* condensed dissimilarity matrix and prints the best of `repeats` trials. *)
(*                                                                         *)
(* One run of main() is one behaviour.  The environment (the three         *)
(* BENCH_* variables) and the build profile are fixed in the initial       *)
(* state; pc is the line main() is at.                                     *)
(***************************************************************************)
EXTENDS Integers, Sequences, FiniteSets

(* ------------------------------ bounds -------------------------------- *)

\* Width of usize in the model (64 in the real builds).
WordBits == 14
\* Largest size override enumerated besides the extreme machine words.
MaxSize == 3
\* Trials explored per run; also the largest repeats override enumerated.
MaxTrials == 2
\* Pushes explored per buffer; a larger buffer is left under construction.
MaxPush == 3
\* A trial's elapsed time is one of 0..MaxTicks clock ticks.
MaxTicks == 2
\* Nanoseconds per clock tick of the model.
NsPerTick == 600500

(* ------------------------- program constants -------------------------- *)

DefaultSize == 100
DefaultRepeats == 1000
\* Duration::as_micros divides the nanoseconds by this.
NanosPerMicro == 1000
\* The divisor of line 49, microseconds to milliseconds.
MicrosPerMilli == 1000
\* Fractional digits of the "{:.11}" format.
Precision == 11

(* --------------------------- machine words ---------------------------- *)

Modulus == 2 ^ WordBits
MaxWord == Modulus - 1

\* The value that stands for "no value" (None, or an Err).
None == 0 - 1

\* a - b on usize: wraps in a build without overflow checks (release),
\* panics (None) in a build with them (debug).
UsizeSub(a, b, checks) ==
    IF a - b < 0 THEN (IF checks THEN None ELSE (a - b) % Modulus) ELSE a - b

\* a * b on usize, likewise.
UsizeMul(a, b, checks) ==
    IF a * b > MaxWord THEN (IF checks THEN None ELSE (a * b) % Modulus) ELSE a * b

(* ------------------------------ strings ------------------------------- *)

\* A string that is parsed as a number is a sequence of characters.
Digits == <<"0", "1", "2", "3", "4", "5", "6", "7", "8", "9">>

DigitOf(c) == IF \E d \in 1..10 : Digits[d] = c
              THEN (CHOOSE d \in 1..10 : Digits[d] = c) - 1
              ELSE None

\* The decimal numeral of n, as the shell would write it in an override.
RECURSIVE Numeral(_)
Numeral(n) == IF n < 10 THEN <<Digits[n + 1]>>
              ELSE Numeral(n \div 10) \o <<Digits[(n % 10) + 1]>>

\* The digit loop of usize::from_str: an invalid digit or a value past
\* usize::MAX is an Err.
RECURSIVE ParseDigits(_, _)
ParseDigits(s, acc) ==
    IF s = <<>> THEN acc
    ELSE LET d == DigitOf(Head(s)) IN
         IF d = None THEN None
         ELSE IF acc * 10 + d > MaxWord THEN None
         ELSE ParseDigits(Tail(s), acc * 10 + d)

\* str::parse::<usize>: empty is an Err, a lone sign is an Err, a leading
\* "+" is skipped, a leading "-" is an invalid digit of an unsigned type.
ParseUsize(s) ==
    IF s = <<>> THEN None
    ELSE IF Head(s) \in {"+", "-"} /\ Tail(s) = <<>> THEN None
    ELSE IF Head(s) = "+" THEN ParseDigits(Tail(s), 0)
    ELSE ParseDigits(s, 0)

(* ---------------------------- environment ----------------------------- *)

\* env::var(name) is Ok(val) only for a variable that is set and valid
\* Unicode; both other cases are an Err.
Unset == [kind |-> "unset"]
NotUnicode == [kind |-> "not_unicode"]
Str(s) == [kind |-> "str", val |-> s]

EnvVar(v) == IF v.kind = "str" THEN "Ok" ELSE "Err"

SizeValues ==
    {Unset, NotUnicode}
    \cup {Str(Numeral(n)) : n \in (0..MaxSize) \cup {MaxWord - 1, MaxWord, MaxWord + 1}}
    \cup {Str(<<"a", "b", "c">>), Str(<<>>), Str(<<"+", "2">>), Str(<<"-", "1">>)}

RepeatsValues ==
    {Unset, NotUnicode}
    \cup {Str(Numeral(n)) : n \in 0..MaxTrials}
    \cup {Str(<<"a", "b", "c">>)}

RuleNames == {"single", "complete", "average", "weighted", "ward", "centroid", "median"}

RuleValues ==
    {Unset, NotUnicode}
    \cup {Str(s) : s \in RuleNames \cup {"mst", "chain", "generic", "abc"}}

(* ------------------------------- kodama ------------------------------- *)

\* kodama::Method
Method == {"Single", "Complete", "Average", "Weighted", "Ward", "Centroid", "Median"}

\* <Method as FromStr>::from_str: the seven linkage names, an Err otherwise.
FromStr(s) ==
    CASE s = "single" -> "Single"
      [] s = "complete" -> "Complete"
      [] s = "average" -> "Average"
      [] s = "weighted" -> "Weighted"
      [] s = "ward" -> "Ward"
      [] s = "centroid" -> "Centroid"
      [] s = "median" -> "Median"
      [] OTHER -> "Err"

\* Method::into_method_chain: centroid and median have no chain rule.
IntoMethodChain(m) == IF m \in {"Centroid", "Median"} THEN "None" ELSE m

\* The match of lines 36-44 on method.as_str(): which entry point is called.
Dispatch(m) ==
    CASE m = "mst" -> "mst"
      [] m = "chain" -> "nnchain"
      [] OTHER -> "generic"

(* ------------------------------- state -------------------------------- *)

VARIABLES
    env,              \* the BENCH_* variables of the process environment
    overflow_checks,  \* the build profile: TRUE debug, FALSE release
    pc,               \* the line main() is at; "done", "aborted" at the end
    size,             \* let size (line 11)
    condensed_size,   \* let condensed_size (line 15)
    repeats,          \* let repeats (line 16)
    rule,             \* let rule (line 20)
    method,           \* let method (line 24)
    i,                \* how many items the range 0..repeats has yielded
    allocated,        \* how many Vecs were created so far
    condensed_dism,   \* the closure's Vec: its identity, capacity, length
    k,                \* how many items the range 0..condensed_size yielded
    start,            \* let start (line 35): "none" or "running"
    calls,            \* every entry point invocation so far, in order
    durations,        \* what the closure returned, trial by trial
    acc,              \* the accumulator of Iterator::min
    best_time,        \* let best_time (line 29)
    stdout,           \* the lines printed
    panic,            \* the panic message of an aborted run
    trace             \* the run's steps so far, in order

vars == <<env, overflow_checks, pc, size, condensed_size, repeats, rule, method,
          i, allocated, condensed_dism, k, start, calls, durations, acc,
          best_time, stdout, panic, trace>>

config == <<env, overflow_checks>>
locals == <<size, condensed_size, repeats, rule, method>>
loop == <<i, allocated, condensed_dism, k, start, calls, durations, acc, trace>>
report == <<best_time, stdout>>

NoBuf == [id |-> 0, cap |-> 0, len |-> 0, mutated |-> FALSE]

\* Faulty variant of WithCapacity: one Vec created once and handed out again
\* in every trial.
WithCapacityShared(n, c) == [id |-> 1, cap |-> c, len |-> 0, mutated |-> n > 0]

\* Vec::<f64>::with_capacity(c): an empty Vec no earlier Vec shares storage with.
WithCapacity(n, c) == [id |-> n + 1, cap |-> c, len |-> 0, mutated |-> FALSE]

\* A panic unwinds main(): nothing after it runs.
Abort(msg) == pc' = "aborted" /\ panic' = msg

Init ==
    /\ env \in [BENCH_SIZE : SizeValues, BENCH_REPEATS : RepeatsValues,
                BENCH_RULE : RuleValues]
    /\ overflow_checks \in BOOLEAN
    /\ pc = "l11"
    /\ size = None /\ condensed_size = None /\ repeats = None
    /\ rule = "" /\ method = ""
    /\ i = 0 /\ allocated = 0 /\ condensed_dism = NoBuf /\ k = 0
    /\ start = "none"
    /\ calls = <<>> /\ durations = <<>> /\ acc = None
    /\ best_time = None /\ stdout = <<>> /\ panic = "" /\ trace = <<>>

(* --------------------------- configuration ---------------------------- *)

\* Lines 11-14, and 16-19: the override parsed and unwrapped, or the default.
Override(v, default) ==
    IF EnvVar(v) = "Ok" THEN ParseUsize(v.val) ELSE default

ReadSize ==
    /\ pc = "l11"
    /\ LET n == Override(env.BENCH_SIZE, DefaultSize) IN
       IF n = None
       THEN Abort("ParseIntError") /\ UNCHANGED size
       ELSE size' = n /\ pc' = "l15" /\ UNCHANGED panic
    /\ UNCHANGED <<config, condensed_size, repeats, rule, method, loop, report>>

\* Faulty variant of CondensedSize: size * ((size - 1) / 2), the division
\* taken before the product.
CondensedSizeHalvedFirst(n, checks) ==
    LET m == UsizeSub(n, 1, checks) IN
    IF m = None THEN None ELSE UsizeMul(n, m \div 2, checks)

\* Line 15: (size * (size - 1)) / 2.
CondensedSize(n, checks) ==
    LET m == UsizeSub(n, 1, checks) IN
    IF m = None THEN None
    ELSE LET p == UsizeMul(n, m, checks) IN
         IF p = None THEN None ELSE p \div 2

ComputeCondensedSize ==
    /\ pc = "l15"
    /\ LET c == CondensedSize(size, overflow_checks) IN
       IF c = None
       THEN Abort("arithmetic overflow") /\ UNCHANGED condensed_size
       ELSE condensed_size' = c /\ pc' = "l16" /\ UNCHANGED panic
    /\ UNCHANGED <<config, size, repeats, rule, method, loop, report>>

ReadRepeats ==
    /\ pc = "l16"
    /\ LET n == Override(env.BENCH_REPEATS, DefaultRepeats) IN
       IF n = None
       THEN Abort("ParseIntError") /\ UNCHANGED repeats
       ELSE repeats' = n /\ pc' = "l20" /\ UNCHANGED panic
    /\ UNCHANGED <<config, size, condensed_size, rule, method, loop, report>>

\* Faulty variant of ResolveRule: an unknown name falls back to a rule
\* (unwrap_or) instead of panicking.
ResolveRuleLenient(v) ==
    IF EnvVar(v) = "Ok"
    THEN (IF FromStr(v.val) = "Err" THEN "Centroid" ELSE FromStr(v.val))
    ELSE "Ward"

\* Lines 20-23.
ResolveRule(v) == IF EnvVar(v) = "Ok" THEN FromStr(v.val) ELSE "Ward"

ReadRule ==
    /\ pc = "l20"
    /\ LET r == ResolveRule(env.BENCH_RULE) IN
       IF r = "Err"
       THEN Abort("Invalid rule") /\ UNCHANGED rule
       ELSE rule' = r /\ pc' = "l24" /\ UNCHANGED panic
    /\ UNCHANGED <<config, size, condensed_size, repeats, method, loop, report>>

\* Lines 24-27.
ResolveMethod(v) == IF EnvVar(v) = "Ok" THEN v.val ELSE "generic"

ReadMethod ==
    /\ pc = "l24"
    /\ method' = ResolveMethod(env.BENCH_RULE)
    /\ pc' = "l29"
    /\ UNCHANGED <<config, size, condensed_size, repeats, rule, loop, report, panic>>

(* ---------------------------- timing loop ----------------------------- *)

\* Line 29, (0..repeats).next(): the closure runs once per item; after the
\* last one the reduction is unwrapped.
NextTrial ==
    /\ pc = "l29"
    /\ i < repeats => i < MaxTrials
    /\ IF i < repeats
       THEN i' = i + 1 /\ pc' = "l31"
       ELSE i' = i /\ pc' = "l47"
    /\ UNCHANGED <<config, locals, allocated, condensed_dism, k, start, calls,
                   durations, acc, trace, report, panic>>

\* Line 31.
Allocate ==
    /\ pc = "l31"
    /\ condensed_dism' = WithCapacity(allocated, condensed_size)
    /\ allocated' = allocated + 1
    /\ k' = 0
    /\ trace' = Append(trace, "alloc")
    /\ pc' = "l32"
    /\ UNCHANGED <<config, locals, i, start, calls, durations, acc, report, panic>>

\* Line 32, (0..condensed_size).next(): whether the for loop has ended.
ForDone(n, c) == n >= c

\* Lines 32-34: one push per item of 0..condensed_size.
Fill ==
    /\ pc = "l32"
    /\ ~ForDone(k, condensed_size) => k < MaxPush
    /\ IF ForDone(k, condensed_size)
       THEN pc' = "l35" /\ UNCHANGED <<k, condensed_dism, trace>>
       ELSE /\ k' = k + 1
            /\ condensed_dism' = [condensed_dism EXCEPT !.len = @ + 1]
            /\ trace' = Append(trace, "push")
            /\ pc' = "l32"
    /\ UNCHANGED <<config, locals, i, allocated, start, calls, durations, acc,
                   report, panic>>

\* Faulty variant of StartTimer: the timer may be started at line 31, before
\* the buffer is created and filled.
StartTimerBeforeFill ==
    /\ pc \in {"l31", "l35"}
    /\ pc = "l31" => start = "none"
    /\ IF start = "none"
       THEN start' = "running" /\ trace' = Append(trace, "timer_start")
       ELSE UNCHANGED <<start, trace>>
    /\ pc' = IF pc = "l31" THEN "l31" ELSE "l36"
    /\ UNCHANGED <<config, locals, i, allocated, condensed_dism, k, calls,
                   durations, acc, report, panic>>

\* Line 35.
StartTimer ==
    /\ pc = "l35"
    /\ start' = "running"
    /\ trace' = Append(trace, "timer_start")
    /\ pc' = "l36"
    /\ UNCHANGED <<config, locals, i, allocated, condensed_dism, k, calls,
                   durations, acc, report, panic>>

\* What an entry point is handed.
Call(entry) ==
    [entry |-> entry, n |-> size, rule |-> rule, trial |-> i,
     buf |-> condensed_dism.id, len |-> condensed_dism.len,
     mutated |-> condensed_dism.mutated]

\* Lines 36-44: the arm is chosen, its arguments are evaluated (the chain
\* arm unwraps into_method_chain), the entry point is entered.
Invoke ==
    /\ pc = "l36"
    /\ LET entry == Dispatch(method) IN
       IF entry = "nnchain" /\ IntoMethodChain(rule) = "None"
       THEN Abort("Invalid chain rule") /\ UNCHANGED <<calls, trace>>
       ELSE /\ calls' = Append(calls, Call(entry))
            /\ trace' = Append(trace, "call")
            /\ pc' = "in_call"
            /\ UNCHANGED panic
    /\ UNCHANGED <<config, locals, i, allocated, condensed_dism, k, start,
                   durations, acc, report>>

\* Faulty variant of Algorithm: a failed invocation is swallowed and the loop
\* goes on to the next trial.
AlgorithmFailureSkipped ==
    /\ pc = "in_call"
    /\ \E ok \in BOOLEAN :
         IF ok
         THEN /\ condensed_dism' = [condensed_dism EXCEPT !.mutated = TRUE]
              /\ trace' = Append(trace, "return")
              /\ pc' = "l45"
              /\ UNCHANGED <<panic, start>>
         ELSE /\ pc' = "l29"
              /\ panic' = "algorithm panicked"
              /\ start' = "none"
              /\ condensed_dism' = NoBuf
              /\ trace' = Append(trace, "panic")
    /\ UNCHANGED <<config, locals, i, allocated, k, calls, durations,
                   acc, report>>

\* The entry point returns, having worked on the buffer in place, or panics.
Algorithm ==
    /\ pc = "in_call"
    /\ \E ok \in BOOLEAN :
         IF ok
         THEN /\ condensed_dism' = [condensed_dism EXCEPT !.mutated = TRUE]
              /\ trace' = Append(trace, "return")
              /\ pc' = "l45"
              /\ UNCHANGED panic
         ELSE /\ Abort("algorithm panicked")
              /\ UNCHANGED <<condensed_dism, trace>>
    /\ UNCHANGED <<config, locals, i, allocated, k, start, calls, durations,
                   acc, report>>

\* Duration::as_micros.
AsMicros(ns) == ns \div NanosPerMicro

\* Faulty variant of MinStep: the fold keeps the larger value.
MaxStep(a, d) == IF a = None \/ d > a THEN d ELSE a

\* One step of Iterator::min's fold.
MinStep(a, d) == IF a = None \/ d < a THEN d ELSE a

\* Line 45: the closure returns the elapsed microseconds, the buffer is
\* dropped, and min() folds the value in.
Elapsed ==
    /\ pc = "l45"
    /\ \E t \in 0..MaxTicks :
         LET d == AsMicros(t * NsPerTick) IN
         /\ durations' = Append(durations, d)
         /\ acc' = MinStep(acc, d)
    /\ start' = "none"
    /\ condensed_dism' = NoBuf
    /\ trace' = Append(trace, "timer_stop")
    /\ pc' = "l29"
    /\ UNCHANGED <<config, locals, i, allocated, k, calls, report, panic>>

\* Faulty variant of Unwrap: an empty reduction yields 0 (unwrap_or_default).
UnwrapOrDefault ==
    /\ pc = "l47"
    /\ best_time' = IF acc = None THEN 0 ELSE acc
    /\ pc' = "l49"
    /\ UNCHANGED <<config, locals, loop, stdout, panic>>

\* Lines 47-48: .min().unwrap().
Unwrap ==
    /\ pc = "l47"
    /\ IF acc = None
       THEN Abort("unwrap on None") /\ UNCHANGED best_time
       ELSE best_time' = acc /\ pc' = "l49" /\ UNCHANGED panic
    /\ UNCHANGED <<config, locals, loop, stdout>>

(* ------------------------------ report -------------------------------- *)

RECURSIVE Zeros(_)
Zeros(n) == IF n = 0 THEN <<>> ELSE <<"0">> \o Zeros(n - 1)

\* n in decimal, padded with zeros on the left to w digits.
Padded(n, w) == LET d == Numeral(n) IN Zeros(w - Len(d)) \o d

\* Line 49: format!("{:.11}", (best_time as f64) / 1000.0).  A whole number of
\* microseconds has three fractional digits in milliseconds, the rest are 0.
FormatMillis(us) ==
    Numeral(us \div MicrosPerMilli) \o <<".">>
    \o Padded(us % MicrosPerMilli, 3) \o Zeros(Precision - 3)

Println ==
    /\ pc = "l49"
    /\ stdout' = Append(stdout, FormatMillis(best_time))
    /\ pc' = "done"
    /\ UNCHANGED <<config, locals, loop, best_time, panic>>

Next ==
    \/ ReadSize
    \/ ComputeCondensedSize
    \/ ReadRepeats
    \/ ReadRule
    \/ ReadMethod
    \/ NextTrial
    \/ Allocate
    \/ Fill
    \/ StartTimer
    \/ Invoke
    \/ Algorithm
    \/ Elapsed
    \/ Unwrap
    \/ Println

Spec == Init /\ [][Next]_vars

(* ------------------------- reading a run back ------------------------- *)

Terminal == pc \in {"done", "aborted"}

Indices(q) == 1..Len(q)

\* How many invocations trial t made.
CallsOfTrial(t) == Cardinality({j \in Indices(calls) : calls[j].trial = t})

\* The number a sequence of decimal digits denotes.
RECURSIVE DecimalValue(_)
DecimalValue(s) ==
    IF s = <<>> THEN 0
    ELSE DecimalValue(SubSeq(s, 1, Len(s) - 1)) * 10 + DigitOf(s[Len(s)])

\* The microseconds a printed line of milliseconds denotes; None when the line
\* is not a whole number of microseconds written with Precision fractional digits.
MicrosOf(line) ==
    IF ~\E j \in Indices(line) : line[j] = "." THEN None
    ELSE LET dot == CHOOSE j \in Indices(line) : line[j] = "."
             whole == SubSeq(line, 1, dot - 1)
             frac == SubSeq(line, dot + 1, Len(line))
         IN IF /\ Len(whole) >= 1
               /\ Len(frac) = Precision
               /\ \A j \in Indices(whole) : DigitOf(whole[j]) # None
               /\ \A j \in Indices(frac) : DigitOf(frac[j]) # None
               /\ \A j \in 4..Precision : frac[j] = "0"
            THEN DecimalValue(whole) * 1000 + DecimalValue(SubSeq(frac, 1, 3))
            ELSE None

\* Event j of the trace lies between a timer start and the stop that follows it.
Timed(j) ==
    \E s \in 1..(j - 1) :
        /\ trace[s] = "timer_start"
        /\ \A m \in (s + 1)..(j - 1) : trace[m] # "timer_stop"

\* An override that is present in the environment.
Present(v) == v # Unset

\* A present size or repeats override that is no unsigned integer.
MalformedNumber(v) ==
    Present(v) /\ (v.kind = "not_unicode" \/ ParseUsize(v.val) = None)

\* A present rule override that names no linkage rule.
MalformedRule(v) ==
    Present(v) /\ (v.kind = "not_unicode" \/ v.val \notin RuleNames)

(* ------------------------------- claims ------------------------------- *)

\* C1: every trial invokes exactly one entry point, the one of the family
\* keyword: BENCH_RULE = "mst" leads to trials that call mst, "chain" to trials
\* that call nnchain, a linkage rule name or no override to trials that call
\* generic.  The keywords mst and chain therefore are values the
\* configuration accepts, not ones it rejects as an invalid rule.
FamilyEntry(v) ==
    IF v = Str("mst") THEN "mst"
    ELSE IF v = Str("chain") THEN "nnchain"
    ELSE "generic"

C1_DispatchFollowsFamilyKeyword ==
    /\ \A j \in Indices(calls) : calls[j].entry = FamilyEntry(env.BENCH_RULE)
    /\ \A t \in 1..i : CallsOfTrial(t) <= 1
    /\ \A t \in Indices(durations) : CallsOfTrial(t) = 1
    /\ env.BENCH_RULE \in {Str("mst"), Str("chain")} => panic # "Invalid rule"

\* C2: in every trial the timer starts only once the trial's buffer holds all
\* condensed_size values, and stops right after the entry point returns: no
\* allocation and no push happens inside a timing window.
C2_TimerExcludesConstruction ==
    /\ \A j \in Indices(trace) :
         /\ trace[j] \in {"alloc", "push"} => ~Timed(j)
         /\ trace[j] = "timer_start" =>
              /\ j - condensed_size - 1 >= 1
              /\ trace[j - condensed_size - 1] = "alloc"
              /\ \A m \in (j - condensed_size)..(j - 1) : trace[m] = "push"
         /\ trace[j] = "timer_stop" => j > 1 /\ trace[j - 1] = "return"
         /\ (trace[j] = "return" /\ j < Len(trace)) => trace[j + 1] = "timer_stop"
    /\ start = "running" =>
         condensed_dism.len = condensed_size
         /\ pc \in {"l36", "in_call", "l45", "aborted"}

C2_Witness ==
    /\ \E j \in Indices(trace) : trace[j] = "timer_stop"
    /\ \E j \in Indices(trace) : trace[j] = "push"
    /\ start = "running"

\* C3: the value a successful run prints is the minimum of its repeats >= 1
\* trial durations: it is one of them, at most each of them, not negative,
\* and with one trial it is that trial's duration.
C3_ReportsMinimum ==
    pc = "done" =>
        /\ Len(durations) = repeats /\ repeats >= 1
        /\ Len(stdout) = 1
        /\ LET shown == MicrosOf(stdout[1]) IN
           /\ shown # None /\ shown >= 0
           /\ \E t \in Indices(durations) : shown = durations[t]
           /\ \A t \in Indices(durations) : shown <= durations[t]
           /\ repeats = 1 => shown = durations[1]

C3_Witness ==
    /\ pc = "done"
    /\ Len(durations) >= 2
    /\ durations[1] < durations[2]
    /\ MicrosOf(stdout[1]) = durations[1]
    /\ durations[1] > 0

\* C4: every invocation is handed a buffer no earlier invocation was handed,
\* one no algorithm has worked on yet.
C4_FreshBufferPerTrial ==
    /\ \A j \in Indices(calls) : ~calls[j].mutated /\ calls[j].buf >= 1
    /\ \A j, m \in Indices(calls) : j # m => calls[j].buf # calls[m].buf

C4_Witness ==
    /\ Len(calls) >= 2
    /\ calls[1].buf # calls[2].buf
    /\ pc = "in_call"

\* C5: for a size n >= 2 the buffer an entry point is handed has length
\* (n * (n - 1)) / 2, the product taken in machine words before the division.
C5_BufferLength ==
    \A j \in Indices(calls) :
        calls[j].n >= 2 =>
            calls[j].len = ((calls[j].n * (calls[j].n - 1)) % Modulus) \div 2

C5_Witness ==
    \E j \in Indices(calls) :
        /\ calls[j].n >= 2
        /\ calls[j].n * (calls[j].n - 1) > MaxWord
        /\ calls[j].len >= 1

\* C6: a run that selects the chain family with a rule that has no chain rule
\* fails before any buffer is built and before any timer is started, outside
\* the timing loop.
ChainSelected == Dispatch(ResolveMethod(env.BENCH_RULE)) = "nnchain"

NoChainRule ==
    LET r == ResolveRule(env.BENCH_RULE) IN
    r = "Err" \/ IntoMethodChain(r) = "None"

AnyMalformed ==
    \/ MalformedNumber(env.BENCH_SIZE)
    \/ MalformedNumber(env.BENCH_REPEATS)
    \/ MalformedRule(env.BENCH_RULE)

C7_MalformedOverrideAborts ==
    AnyMalformed =>
        /\ allocated = 0 /\ i = 0 /\ calls = <<>> /\ stdout = <<>>
        /\ pc # "done"

\* C8: a run ends printed-once after all repeats trials, or aborted with
\* nothing printed; an entry point that fails in trial i ends the run there,
\* with no second invocation in that trial, no later trial and no report.
C8_OneLineOrNothing ==
    /\ Len(stdout) <= 1
    /\ pc # "done" => stdout = <<>>
    /\ pc = "done" =>
         /\ Len(stdout) = 1 /\ panic = ""
         /\ i = repeats /\ Len(durations) = repeats /\ Len(calls) = repeats
    /\ pc = "aborted" => panic # ""
    /\ Terminal => ~ENABLED Next
    /\ panic = "algorithm panicked" =>
         /\ pc = "aborted"
         /\ CallsOfTrial(i) = 1 /\ Len(calls) = i
         /\ Len(durations) = i - 1
         /\ best_time = None

C8_Witness ==
    /\ pc = "aborted"
    /\ panic = "algorithm panicked"
    /\ Len(durations) >= 1
    /\ stdout = <<>>

\* C9: every invocation of an entry point passes an observation count
\* n >= 2; a size override of 0 or 1 reaches no invocation.
C9_AtLeastTwoObservations ==
    \A j \in Indices(calls) : calls[j].n >= 2

\* C10: a repeats override of 0 passes the configuration, runs no trial, and
\* the run aborts on the empty reduction, printing nothing; a run that prints
\* has run exactly repeats >= 1 trials.
RepeatsIsZero == env.BENCH_REPEATS.kind = "str" /\ repeats = 0

C10_ZeroRepeatsAbortsAtReduction ==
    /\ RepeatsIsZero =>
         /\ i = 0 /\ allocated = 0 /\ trace = <<>> /\ calls = <<>>
         /\ start = "none" /\ stdout = <<>>
         /\ pc \in {"l20", "l24", "l29", "l47", "aborted"}
         /\ pc = "aborted" => panic \in {"Invalid rule", "unwrap on None"}
         /\ (pc = "aborted" /\ ResolveRule(env.BENCH_RULE) # "Err") =>
              panic = "unwrap on None"
    /\ pc = "done" =>
         /\ repeats >= 1
         /\ i = repeats /\ Len(calls) = repeats /\ Len(durations) = repeats
         /\ Len(stdout) = 1

C10_Witness ==
    /\ RepeatsIsZero
    /\ pc = "aborted"
    /\ panic = "unwrap on None"

====
